---- MODULE Spec2Model ----
(***************************************************************************)
(* Model of stat-analysis.py: the browsing-history loaders, the January    *)
(* filter, the hourly aggregation, the sleep-range inference and main.     *)
(*                                                                         *)
(* Python's None is the empty tuple << >>; longest_block is either None or *)
(* the pair <<start, end>> (longest_block[0], longest_block[1] in Python   *)
(* are longest_block[1], longest_block[2] here).                           *)
(***************************************************************************)
EXTENDS Integers, Sequences, FiniteSets, TLC

VARIABLES
    pc,                  \* position of the running function
    row,                 \* compute_sleep_range: the day's 24-hour vector
    min_inactive_hours,  \* compute_sleep_range: the threshold argument
    hour,                \* compute_sleep_range: the loop variable of line 82
    scan,                \* compute_sleep_range: longest_block, longest_length,
                         \*                      current_start, current_length
    results,             \* compute_sleep_range: the list of result records
    chrome_file,         \* main: the parsed JSON document of History.json
    safari_file,         \* main: the parsed JSON document of safari.json
    chrome_df,           \* main: load_chrome_history's DataFrame
    safari_df,           \* main: load_safari_history's DataFrame
    merged,              \* main: the merged, then filtered, event DataFrame
    activity,            \* main: the date x hour activity matrix
    sleep_ranges_df,     \* main: compute_sleep_range's DataFrame
    output_file,         \* main: what to_excel wrote, None before the export
    error                \* the exception that ended the run, None when there is none

sleepVars == <<row, min_inactive_hours, hour, scan, results>>
mainVars == <<chrome_file, safari_file, chrome_df, safari_df, merged, activity,
              sleep_ranges_df, output_file, error>>
vars == <<pc, sleepVars, mainVars>>

----------------------------------------------------------------------------
(* Bounds and program constants *)

MaxActive == 2            \* a day has at most this many active (or inactive) hours
MaxMinInactive == 25      \* thresholds 1..MaxMinInactive are tried
MaxEntries == 2           \* a source document lists at most this many entries
MaxEvents == 2            \* aggregate_hourly_activity is given at most this many events

NumHours == 24            \* range(24)
DefaultMinInactive == 5   \* min_inactive_hours=5
\* Instants are whole seconds since the epoch (32-bit integers cannot hold
\* microseconds of 2025), wall-clock as utcfromtimestamp gives it.
StartJan == 1735689600    \* datetime(2025, 1, 1, 0, 0, 0)
EndJan == 1738367999      \* datetime(2025, 1, 31, 23, 59, 59)
SecondsPerHour == 3600
SecondsPerDay == 86400

Hours == 0 .. (NumHours - 1)
None == << >>

----------------------------------------------------------------------------
(* compute_sleep_range *)

\* row.get(hour, 0)
RowGet(r, h) == IF h \in DOMAIN r THEN r[h] ELSE 0

\* the locals at the top of the per-date loop body (lines 78-81)
ScanInit ==
    [longest_block |-> None, longest_length |-> 0,
     current_start |-> None, current_length |-> 0]

\* mutants of the loop body, see ScanHour
ScanHourEndAtHour(s, r, h, m) ==
    IF RowGet(r, h) = 0
    THEN IF s.current_start = None
         THEN [s EXCEPT !.current_start = <<h>>, !.current_length = 1]
         ELSE [s EXCEPT !.current_length = @ + 1]
    ELSE IF s.current_start # None
         THEN IF s.current_length >= m /\ s.current_length > s.longest_length
              THEN [s EXCEPT !.longest_block = <<s.current_start[1], h>>,
                             !.longest_length = s.current_length,
                             !.current_start = None, !.current_length = 0]
              ELSE [s EXCEPT !.current_start = None, !.current_length = 0]
         ELSE s

ScanHourLastWins(s, r, h, m) ==
    IF RowGet(r, h) = 0
    THEN IF s.current_start = None
         THEN [s EXCEPT !.current_start = <<h>>, !.current_length = 1]
         ELSE [s EXCEPT !.current_length = @ + 1]
    ELSE IF s.current_start # None
         THEN IF s.current_length >= m
              THEN [s EXCEPT !.longest_block = <<s.current_start[1], h - 1>>,
                             !.longest_length = s.current_length,
                             !.current_start = None, !.current_length = 0]
              ELSE [s EXCEPT !.current_start = None, !.current_length = 0]
         ELSE s

ScanHourStrictThreshold(s, r, h, m) ==
    IF RowGet(r, h) = 0
    THEN IF s.current_start = None
         THEN [s EXCEPT !.current_start = <<h>>, !.current_length = 1]
         ELSE [s EXCEPT !.current_length = @ + 1]
    ELSE IF s.current_start # None
         THEN IF s.current_length > m /\ s.current_length > s.longest_length
              THEN [s EXCEPT !.longest_block = <<s.current_start[1], h - 1>>,
                             !.longest_length = s.current_length,
                             !.current_start = None, !.current_length = 0]
              ELSE [s EXCEPT !.current_start = None, !.current_length = 0]
         ELSE s

ScanHourTieLater(s, r, h, m) ==
    IF RowGet(r, h) = 0
    THEN IF s.current_start = None
         THEN [s EXCEPT !.current_start = <<h>>, !.current_length = 1]
         ELSE [s EXCEPT !.current_length = @ + 1]
    ELSE IF s.current_start # None
         THEN IF s.current_length >= m /\ s.current_length >= s.longest_length
              THEN [s EXCEPT !.longest_block = <<s.current_start[1], h - 1>>,
                             !.longest_length = s.current_length,
                             !.current_start = None, !.current_length = 0]
              ELSE [s EXCEPT !.current_start = None, !.current_length = 0]
         ELSE s

\* one iteration of "for hour in range(24)" (lines 83-95)
ScanHour(s, r, h, m) ==
    IF RowGet(r, h) = 0
    THEN IF s.current_start = None
         THEN [s EXCEPT !.current_start = <<h>>, !.current_length = 1]
         ELSE [s EXCEPT !.current_length = @ + 1]
    ELSE IF s.current_start # None
         THEN IF s.current_length >= m /\ s.current_length > s.longest_length
              THEN [s EXCEPT !.longest_block = <<s.current_start[1], h - 1>>,
                             !.longest_length = s.current_length,
                             !.current_start = None, !.current_length = 0]
              ELSE [s EXCEPT !.current_start = None, !.current_length = 0]
         ELSE s

\* mutants of the end-of-scan check, see EndOfScan
EndOfScanSkipped(s, m) == s

EndOfScanOffByOne(s, m) ==
    IF s.current_start # None
       /\ s.current_length >= m /\ s.current_length > s.longest_length
    THEN [s EXCEPT !.longest_block = <<s.current_start[1], NumHours - 2>>,
                   !.longest_length = s.current_length]
    ELSE s

\* the check after the loop (lines 96-99)
EndOfScan(s, m) ==
    IF s.current_start # None
       /\ s.current_length >= m /\ s.current_length > s.longest_length
    THEN [s EXCEPT !.longest_block = <<s.current_start[1], NumHours - 1>>,
                   !.longest_length = s.current_length]
    ELSE s

\* the record appended to results (lines 101-114)
ResultRow(date, s) ==
    IF s.longest_block # None
    THEN [date |-> date,
          sleep_start_hour |-> <<s.longest_block[1]>>,
          sleep_end_hour |-> <<s.longest_block[2]>>,
          sleep_duration_hours |-> <<s.longest_length>>]
    ELSE [date |-> date,
          sleep_start_hour |-> None,
          sleep_end_hour |-> None,
          sleep_duration_hours |-> None]

----------------------------------------------------------------------------
(* Specification SpecSleep: compute_sleep_range on a one-day activity      *)
(* matrix, one loop iteration per step.                                    *)

RECURSIVE SubsetsUpTo(_)
SubsetsUpTo(k) ==
    IF k = 0 THEN {{}}
    ELSE LET P == SubsetsUpTo(k - 1)
         IN  P \cup {s \cup {h} : s \in P, h \in Hours}

\* the count of an active hour: 1, 2 or 3 events
ActiveCount(h) == 1 + (h % 3)

\* days with few active hours, and days with few inactive hours
SparseRows ==
    {[h \in Hours |-> IF h \in S THEN ActiveCount(h) ELSE 0] : S \in SubsetsUpTo(MaxActive)}
    \cup
    {[h \in Hours |-> IF h \in S THEN 0 ELSE ActiveCount(h)] : S \in SubsetsUpTo(MaxActive)}

SleepDate == StartJan \div SecondsPerDay

\* the variables of main, unused while compute_sleep_range runs on its own
MainIdle ==
    /\ chrome_file = None /\ safari_file = None
    /\ chrome_df = None /\ safari_df = None
    /\ merged = None /\ activity = None
    /\ sleep_ranges_df = None /\ output_file = None /\ error = None

InitSleep ==
    /\ MainIdle
    /\ pc = "scan"
    /\ row \in SparseRows
    /\ min_inactive_hours \in 1 .. MaxMinInactive
    /\ hour = 0
    /\ scan = ScanInit
    /\ results = << >>

SleepScanStep ==
    /\ pc = "scan"
    /\ hour < NumHours
    /\ scan' = ScanHour(scan, row, hour, min_inactive_hours)
    /\ hour' = hour + 1
    /\ UNCHANGED <<pc, row, min_inactive_hours, results, mainVars>>

SleepEndOfScan ==
    /\ pc = "scan"
    /\ hour = NumHours
    /\ scan' = EndOfScan(scan, min_inactive_hours)
    /\ pc' = "emit"
    /\ UNCHANGED <<row, min_inactive_hours, hour, results, mainVars>>

SleepEmit ==
    /\ pc = "emit"
    /\ results' = Append(results, ResultRow(SleepDate, scan))
    /\ pc' = "returned"
    /\ UNCHANGED <<row, min_inactive_hours, hour, scan, mainVars>>

NextSleep == SleepScanStep \/ SleepEndOfScan \/ SleepEmit

SpecSleep == InitSleep /\ [][NextSleep]_vars

----------------------------------------------------------------------------
(* Properties of compute_sleep_range, stated on the returned record *)

Returned == pc = "returned"
Res == results[1]
Reported == Res.sleep_start_hour # None
IsNoneResult ==
    /\ Res.sleep_start_hour = None
    /\ Res.sleep_end_hour = None
    /\ Res.sleep_duration_hours = None
StartHour == Res.sleep_start_hour[1]
EndHour == Res.sleep_end_hour[1]
Duration == Res.sleep_duration_hours[1]

\* hours a..b are all inactive
ZeroRun(a, b) == a <= b /\ \A h \in a .. b : row[h] = 0
\* a..b is an inactive run that cannot be extended on either side
MaximalRun(a, b) ==
    /\ ZeroRun(a, b)
    /\ (a = 0 \/ row[a - 1] # 0)
    /\ (b = NumHours - 1 \/ row[b + 1] # 0)
MaximalRuns == {ab \in Hours \X Hours : MaximalRun(ab[1], ab[2])}
RunLen(ab) == ab[2] - ab[1] + 1
AllZero == \A h \in Hours : row[h] = 0
AllNonzero == \A h \in Hours : row[h] # 0

\* C1: a reported block satisfies 0 <= start <= end <= 23, its duration is
\* end - start + 1, and every hour of the block has count 0.
C1_BlockIsZeroRun ==
    (Returned /\ Reported) =>
        /\ Res.sleep_end_hour # None /\ Res.sleep_duration_hours # None
        /\ 0 <= StartHour /\ StartHour <= EndHour /\ EndHour <= 23
        /\ Duration = EndHour - StartHour + 1
        /\ \A h \in Hours : (StartHour <= h /\ h <= EndHour) => row[h] = 0

\* a block closed by an active hour and a block closed by the end of the day
C1_Witness ==
    /\ Returned /\ Reported
    /\ StartHour > 0 /\ EndHour < 23 /\ Duration >= 5
    /\ row[23] = 0

\* C2: when a block is reported, no contiguous run of zero hours anywhere in
\* the day (a run ending at hour 23 included) is longer than the reported
\* duration.
C2_NoLongerRun ==
    (Returned /\ Reported) =>
        \A a, b \in Hours : ZeroRun(a, b) => b - a + 1 <= Duration

\* the reported block is followed by a shorter run that also meets the threshold
C2_Witness ==
    /\ Returned /\ Reported
    /\ \E ab \in MaximalRuns :
          /\ ab[1] > EndHour
          /\ RunLen(ab) >= min_inactive_hours
          /\ RunLen(ab) < Duration

\* C3: a block is reported iff some maximal zero-run has length >=
\* min_inactive_hours; a reported duration is >= min_inactive_hours; when no
\* run qualifies the three fields are None.
C3_ReportedIffQualifyingRun ==
    Returned =>
        /\ Reported <=> \E ab \in MaximalRuns : RunLen(ab) >= min_inactive_hours
        /\ Reported => Duration >= min_inactive_hours
        /\ ~Reported => IsNoneResult

\* a run of exactly the threshold length is reported
C3_Witness ==
    /\ Returned /\ Reported
    /\ Duration = min_inactive_hours
    /\ min_inactive_hours > 1

\* a day with no inactive hour yields none
C3_WitnessNone == Returned /\ AllNonzero /\ IsNoneResult

\* C4: when two or more maximal zero-runs share the greatest length L, with
\* L >= min_inactive_hours, the reported block is the one with the smallest
\* start hour.
LongestRuns == {ab \in MaximalRuns : \A cd \in MaximalRuns : RunLen(cd) <= RunLen(ab)}
Tie ==
    /\ Cardinality(LongestRuns) >= 2
    /\ \A ab \in LongestRuns : RunLen(ab) >= min_inactive_hours
C4_TieEarliestWins ==
    (Returned /\ Tie) =>
        /\ Reported
        /\ \E ab \in LongestRuns :
              /\ \A cd \in LongestRuns : ab[1] <= cd[1]
              /\ StartHour = ab[1] /\ EndHour = ab[2] /\ Duration = RunLen(ab)

\* a tie whose last run is still open at hour 23
C4_Witness ==
    /\ Returned /\ Tie /\ Reported
    /\ \E ab \in LongestRuns : ab[2] = 23

\* C5: a zero-run still open after hour 23 whose length is >=
\* min_inactive_hours and greater than every earlier qualifying run is
\* reported with sleep_end_hour = 23; the all-zero day with
\* min_inactive_hours = 5 yields start 0, end 23, duration 24.
OpenRuns == {ab \in MaximalRuns : ab[2] = NumHours - 1}
C5_OpenRunAtEndOfDay ==
    Returned =>
        /\ \A ab \in OpenRuns :
              ( /\ RunLen(ab) >= min_inactive_hours
                /\ \A cd \in MaximalRuns :
                      (cd[2] < ab[1] /\ RunLen(cd) >= min_inactive_hours)
                          => RunLen(ab) > RunLen(cd) )
              => ( /\ Reported
                   /\ StartHour = ab[1] /\ EndHour = 23
                   /\ Duration = RunLen(ab) )
        /\ (AllZero /\ min_inactive_hours = DefaultMinInactive)
              => ( /\ Reported
                   /\ StartHour = 0 /\ EndHour = 23 /\ Duration = 24 )

\* the all-zero day at the default threshold
C5_Witness ==
    /\ Returned /\ AllZero /\ min_inactive_hours = DefaultMinInactive
    /\ Reported /\ EndHour = 23

\* an open run that beats an earlier qualifying run
C5_WitnessBeatsEarlier ==
    /\ Returned /\ Reported /\ EndHour = 23 /\ StartHour > 0
    /\ \E cd \in MaximalRuns :
          cd[2] < StartHour /\ RunLen(cd) >= min_inactive_hours

\* C6 (as claimed): an all-zero day yields "none".
C6_AllZeroYieldsNone ==
    (Returned /\ AllZero) => IsNoneResult

\* C6 (amended): an all-zero day yields the block 0..23 of duration 24
\* whenever min_inactive_hours <= 24, and "none" only when
\* min_inactive_hours > 24; the scan never stops short of a result.
C6_AllZeroYieldsFullDay ==
    /\ (Returned /\ AllZero) =>
          IF min_inactive_hours <= NumHours
          THEN Reported /\ StartHour = 0 /\ EndHour = 23 /\ Duration = 24
          ELSE IsNoneResult
    /\ (AllZero /\ ~Returned) => ENABLED NextSleep

C6_Witness ==
    /\ Returned /\ AllZero /\ min_inactive_hours = 1
    /\ Reported /\ Duration = 24

C6_WitnessNone ==
    Returned /\ AllZero /\ min_inactive_hours > NumHours /\ IsNoneResult

----------------------------------------------------------------------------
(* The loaders.  A JSON object is a function from its keys; a DataFrame is  *)
(* [columns, rows] with each row a function from the columns; a timestamp   *)
(* field holds its value in units of 10^6 microseconds.                     *)

\* pd.DataFrame(records): an empty list gives a frame without columns
DataFrame(records) ==
    IF records = << >>
    THEN [columns |-> {}, rows |-> << >>]
    ELSE [columns |-> DOMAIN records[1], rows |-> records]

\* data.get(key, [])
DocGet(data, key) == IF key \in DOMAIN data THEN data[key] ELSE << >>

\* datetime.utcfromtimestamp(time_usec / 1e6), then eastern.localize: the
\* UTC wall-clock reading labelled US/Eastern
Localize(time_usec) == [wall |-> time_usec, tz |-> "US/Eastern"]

\* entry["time_usec"] raises KeyError on an entry without the field
ChromeRaises(history_list) ==
    \E i \in 1 .. Len(history_list) : "time_usec" \notin DOMAIN history_list[i]

\* the loop of load_chrome_history when no entry raises
ChromeRecords(history_list) ==
    [i \in 1 .. Len(history_list) |->
        [datetime_est |-> Localize(history_list[i]["time_usec"])]]

\* load_chrome_history: the DataFrame, or the exception
LoadChromeHistory(data) ==
    LET history_list == DocGet(data, "Browser History")
    IN  IF ChromeRaises(history_list)
        THEN [raised |-> <<"KeyError", "time_usec">>, df |-> None]
        ELSE [raised |-> None, df |-> DataFrame(ChromeRecords(history_list))]

\* "if not time_usec: continue": the field is absent (None) or 0
SafariSkips(entry) ==
    \/ "destination_time_usec" \notin DOMAIN entry
    \/ entry["destination_time_usec"] = 0

\* the loop of load_safari_history
RECURSIVE SafariRecords(_)
SafariRecords(history_list) ==
    IF history_list = << >> THEN << >>
    ELSE IF SafariSkips(Head(history_list))
         THEN SafariRecords(Tail(history_list))
         ELSE <<[datetime_est |-> Localize(Head(history_list)["destination_time_usec"])]>>
              \o SafariRecords(Tail(history_list))

\* load_safari_history
LoadSafariHistory(data) ==
    [raised |-> None,
     df |-> DataFrame(SafariRecords(DocGet(data, "history")))]

----------------------------------------------------------------------------
(* concat, filter_to_january_2025, the timezone strip *)

\* pd.concat([a, b], ignore_index=True)
Concat(a, b) == [columns |-> a.columns \cup b.columns, rows |-> a.rows \o b.rows]

\* the boolean mask of line 53; both sides are US/Eastern winter instants,
\* so they compare as their wall-clock readings do
InJanuary(r) ==
    r["datetime_est"].wall >= StartJan /\ r["datetime_est"].wall <= EndJan

\* filter_to_january_2025: df["datetime_est"] raises KeyError on a frame
\* without that column; otherwise a copy of the rows the mask selects
FilterToJanuary2025(df) ==
    IF "datetime_est" \notin df.columns
    THEN [raised |-> <<"KeyError", "datetime_est">>, df |-> None]
    ELSE [raised |-> None,
          df |-> [columns |-> df.columns, rows |-> SelectSeq(df.rows, InJanuary)]]

\* merged["datetime_est"] = merged["datetime_est"].dt.tz_localize(None)
StripTz(df) ==
    [df EXCEPT !.rows =
        [i \in 1 .. Len(df.rows) |->
            [df.rows[i] EXCEPT !["datetime_est"] = [@ EXCEPT !.tz = "naive"]]]]

----------------------------------------------------------------------------
(* aggregate_hourly_activity *)

DateOf(dt) == dt.wall \div SecondsPerDay                       \* .dt.date
HourOf(dt) == (dt.wall % SecondsPerDay) \div SecondsPerHour    \* .dt.hour

\* df with one more column, holding vals[i] in row i
AddColumn(df, name, vals) ==
    [columns |-> df.columns \cup {name},
     rows |-> [i \in 1 .. Len(df.rows) |->
                 [c \in DOMAIN df.rows[i] \cup {name} |->
                     IF c = name THEN vals[i] ELSE df.rows[i][c]]]]

\* df["date"] = df["datetime_est"].dt.date, written into the caller's frame
WithDate(df) ==
    AddColumn(df, "date",
              [i \in 1 .. Len(df.rows) |-> DateOf(df.rows[i]["datetime_est"])])

\* df["hour"] = df["datetime_est"].dt.hour, written into the caller's frame
WithHour(df) ==
    AddColumn(df, "hour",
              [i \in 1 .. Len(df.rows) |-> HourOf(df.rows[i]["datetime_est"])])

\* lines 61-62
WithDateAndHour(df) == WithHour(WithDate(df))

\* df.groupby(["date", "hour"]).size(): one count per (date, hour) present
GroupBySize(df) ==
    LET keys == {<<df.rows[i]["date"], df.rows[i]["hour"]>> : i \in 1 .. Len(df.rows)}
    IN  [k \in keys |->
            Cardinality({i \in 1 .. Len(df.rows) :
                            <<df.rows[i]["date"], df.rows[i]["hour"]>> = k})]

\* .unstack(fill_value=0): dates become the index, the hours present the columns
Unstack(sizes) ==
    LET dates == {k[1] : k \in DOMAIN sizes}
        hrs == {k[2] : k \in DOMAIN sizes}
    IN  [index |-> dates, columns |-> hrs,
         data |-> [d \in dates |->
                     [h \in hrs |-> IF <<d, h>> \in DOMAIN sizes
                                    THEN sizes[<<d, h>>] ELSE 0]]]

\* mutant of the reindex, see ReindexColumns
ReindexSkipped(a) == a

\* .reindex(columns=range(24), fill_value=0)
ReindexColumns(a) ==
    [index |-> a.index, columns |-> Hours,
     data |-> [d \in a.index |->
                 [h \in Hours |-> IF h \in a.columns THEN a.data[d][h] ELSE 0]]]

\* the matrix aggregate_hourly_activity returns (lines 63-65)
AggregateHourlyActivity(df) == ReindexColumns(Unstack(GroupBySize(WithDateAndHour(df))))

----------------------------------------------------------------------------
(* compute_sleep_range over a whole activity matrix *)

RECURSIVE ScanFrom(_, _, _, _)
ScanFrom(s, r, h, m) ==
    IF h >= NumHours THEN s ELSE ScanFrom(ScanHour(s, r, h, m), r, h + 1, m)

\* the body of "for date, row in activity.iterrows()"
DayResult(date, r, m) == ResultRow(date, EndOfScan(ScanFrom(ScanInit, r, 0, m), m))

\* the index in iteration order: groupby sorts its keys
RECURSIVE SortedSeq(_)
SortedSeq(S) ==
    IF S = {} THEN << >>
    ELSE LET lo == CHOOSE x \in S : \A y \in S : x <= y
         IN  <<lo>> \o SortedSeq(S \ {lo})

ComputeSleepRange(a, m) ==
    LET dates == SortedSeq(a.index)
    IN  DataFrame([i \in 1 .. Len(dates) |-> DayResult(dates[i], a.data[dates[i]], m)])

\* plot_sleep_gantt: dropna(subset=[...]) raises KeyError on a frame without
\* the two columns
PlotRaises(sleep_df) ==
    ~({"sleep_start_hour", "sleep_end_hour"} \subseteq sleep_df.columns)

----------------------------------------------------------------------------
(* Specification SpecMain: main, one statement per step *)

\* an entry with the timestamp field `key`, or without it
EntryWith(key, v) == [k \in {key} |-> v]
EntryWithout == [k \in {"title"} |-> 0]

\* field values: 0, the last hour of 2024, two instants in hour 3 of
\* January 1, hour 10 of January 2, the first second of February
TimeChoices ==
    {0, StartJan - SecondsPerHour, StartJan + 3 * SecondsPerHour,
     StartJan + 3 * SecondsPerHour + 1800,
     StartJan + SecondsPerDay + 10 * SecondsPerHour, EndJan + 1}

Entries(key) == {EntryWith(key, v) : v \in TimeChoices} \cup {EntryWithout}

RECURSIVE SeqsUpTo(_, _)
SeqsUpTo(S, n) ==
    IF n = 0 THEN {<< >>}
    ELSE LET P == SeqsUpTo(S, n - 1)
         IN  P \cup {Append(q, x) : q \in P, x \in S}

\* a document with its root key, or a JSON object without it
Documents(root, key) ==
    {[k \in {root} |-> es] : es \in SeqsUpTo(Entries(key), MaxEntries)}
    \cup {[k \in {"other"} |-> << >>]}

SleepIdle ==
    /\ row = None /\ min_inactive_hours = DefaultMinInactive
    /\ hour = 0 /\ scan = ScanInit /\ results = << >>

InitMain ==
    /\ SleepIdle
    /\ pc = "start"
    /\ chrome_file \in Documents("Browser History", "time_usec")
    /\ safari_file \in Documents("history", "destination_time_usec")
    /\ chrome_df = None /\ safari_df = None
    /\ merged = None /\ activity = None
    /\ sleep_ranges_df = None /\ output_file = None /\ error = None

\* line 148
MainLoadChrome ==
    /\ pc = "start"
    /\ LET r == LoadChromeHistory(chrome_file)
       IN  IF r.raised # None
           THEN /\ pc' = "error" /\ error' = r.raised
                /\ UNCHANGED chrome_df
           ELSE /\ pc' = "chrome_loaded" /\ chrome_df' = r.df
                /\ UNCHANGED error
    /\ UNCHANGED <<sleepVars, chrome_file, safari_file, safari_df, merged,
                   activity, sleep_ranges_df, output_file>>

\* line 149
MainLoadSafari ==
    /\ pc = "chrome_loaded"
    /\ LET r == LoadSafariHistory(safari_file)
       IN  IF r.raised # None
           THEN /\ pc' = "error" /\ error' = r.raised
                /\ UNCHANGED safari_df
           ELSE /\ pc' = "safari_loaded" /\ safari_df' = r.df
                /\ UNCHANGED error
    /\ UNCHANGED <<sleepVars, chrome_file, safari_file, chrome_df, merged,
                   activity, sleep_ranges_df, output_file>>

\* line 152
MainConcat ==
    /\ pc = "safari_loaded"
    /\ merged' = Concat(chrome_df, safari_df)
    /\ pc' = "merged"
    /\ UNCHANGED <<sleepVars, chrome_file, safari_file, chrome_df, safari_df,
                   activity, sleep_ranges_df, output_file, error>>

\* line 153
MainFilter ==
    /\ pc = "merged"
    /\ LET r == FilterToJanuary2025(merged)
       IN  IF r.raised # None
           THEN /\ pc' = "error" /\ error' = r.raised
                /\ UNCHANGED merged
           ELSE /\ pc' = "filtered" /\ merged' = r.df
                /\ UNCHANGED error
    /\ UNCHANGED <<sleepVars, chrome_file, safari_file, chrome_df, safari_df,
                   activity, sleep_ranges_df, output_file>>

\* line 156
MainStripTz ==
    /\ pc = "filtered"
    /\ merged' = StripTz(merged)
    /\ pc' = "stripped"
    /\ UNCHANGED <<sleepVars, chrome_file, safari_file, chrome_df, safari_df,
                   activity, sleep_ranges_df, output_file, error>>

\* line 159: the call returns the matrix and leaves two new columns in merged
MainAggregate ==
    /\ pc = "stripped"
    /\ merged' = WithDateAndHour(merged)
    /\ activity' = AggregateHourlyActivity(merged)
    /\ pc' = "aggregated"
    /\ UNCHANGED <<sleepVars, chrome_file, safari_file, chrome_df, safari_df,
                   sleep_ranges_df, output_file, error>>

\* line 162
MainComputeSleepRange ==
    /\ pc = "aggregated"
    /\ sleep_ranges_df' = ComputeSleepRange(activity, DefaultMinInactive)
    /\ pc' = "inferred"
    /\ UNCHANGED <<sleepVars, chrome_file, safari_file, chrome_df, safari_df,
                   merged, activity, output_file, error>>

\* lines 165-167
MainExport ==
    /\ pc = "inferred"
    /\ output_file' = sleep_ranges_df.rows
    /\ pc' = "exported"
    /\ UNCHANGED <<sleepVars, chrome_file, safari_file, chrome_df, safari_df,
                   merged, activity, sleep_ranges_df, error>>

\* line 170
MainPlot ==
    /\ pc = "exported"
    /\ IF PlotRaises(sleep_ranges_df)
       THEN pc' = "error" /\ error' = <<"KeyError", "sleep_start_hour">>
       ELSE pc' = "done" /\ UNCHANGED error
    /\ UNCHANGED <<sleepVars, chrome_file, safari_file, chrome_df, safari_df,
                   merged, activity, sleep_ranges_df, output_file>>

NextMain ==
    \/ MainLoadChrome \/ MainLoadSafari \/ MainConcat \/ MainFilter
    \/ MainStripTz \/ MainAggregate \/ MainComputeSleepRange
    \/ MainExport \/ MainPlot

SpecMain == InitMain /\ [][NextMain]_vars

----------------------------------------------------------------------------
(* Specification SpecAgg: aggregate_hourly_activity called, as main calls   *)
(* it, on a frame of timezone-naive events.                                 *)

AggDays == {0, 1}

AggEvents ==
    {[datetime_est |->
         [wall |-> StartJan + d * SecondsPerDay + h * SecondsPerHour, tz |-> "naive"]] :
     d \in AggDays, h \in Hours}

InitAgg ==
    /\ SleepIdle
    /\ pc = "stripped"
    /\ chrome_file = None /\ safari_file = None
    /\ chrome_df = None /\ safari_df = None
    /\ \E evs \in SeqsUpTo(AggEvents, MaxEvents) :
          merged = [columns |-> {"datetime_est"}, rows |-> evs]
    /\ activity = None
    /\ sleep_ranges_df = None /\ output_file = None /\ error = None

NextAgg == MainAggregate \/ MainComputeSleepRange

SpecAgg == InitAgg /\ [][NextAgg]_vars

----------------------------------------------------------------------------
(* Properties of the loaders, the aggregation and main *)

\* the records a loader owes: one per entry that carries the field, in order
RECURSIVE ExpectedRecords(_, _)
ExpectedRecords(history_list, key) ==
    IF history_list = << >> THEN << >>
    ELSE (IF key \in DOMAIN Head(history_list)
          THEN <<[datetime_est |-> Localize(Head(history_list)[key])]>>
          ELSE << >>)
         \o ExpectedRecords(Tail(history_list), key)

ChromeLoadOver == pc # "start"
SafariLoadOver == pc \notin {"start", "chrome_loaded"} /\ chrome_df # None

\* C7: in both loaders an entry without its timestamp field is skipped
\* without an error: loading completes, each entry with a timestamp gives
\* exactly one record and each entry without one gives none.
C7_MissingTimestampSkipped ==
    /\ ChromeLoadOver =>
          /\ chrome_df # None
          /\ chrome_df.rows =
                ExpectedRecords(DocGet(chrome_file, "Browser History"), "time_usec")
    /\ SafariLoadOver =>
          /\ safari_df # None
          /\ safari_df.rows =
                ExpectedRecords(DocGet(safari_file, "history"), "destination_time_usec")

\* C8: a document without its root key makes its loader raise, and the run
\* aborts before aggregation, inference and export; it never goes on with an
\* empty event list for that source.
C8_MissingRootFailsFast ==
    /\ ("Browser History" \notin DOMAIN chrome_file /\ ChromeLoadOver)
          => (pc = "error" /\ chrome_df = None)
    /\ ("history" \notin DOMAIN safari_file /\ SafariLoadOver)
          => (pc = "error" /\ safari_df = None)

\* the events of merged that fall on date d, in hour h
EventsAt(d, h) ==
    {i \in 1 .. Len(merged.rows) :
        /\ DateOf(merged.rows[i]["datetime_est"]) = d
        /\ HourOf(merged.rows[i]["datetime_est"]) = h}
EventsOn(d) ==
    {i \in 1 .. Len(merged.rows) : DateOf(merged.rows[i]["datetime_est"]) = d}
EventDates == {DateOf(merged.rows[i]["datetime_est"]) : i \in 1 .. Len(merged.rows)}

RECURSIVE SumOver(_, _)
SumOver(f, S) ==
    IF S = {} THEN 0
    ELSE LET x == CHOOSE y \in S : TRUE IN f[x] + SumOver(f, S \ {x})

Aggregated == pc \in {"aggregated", "inferred"}

\* C9: aggregate_hourly_activity gives every date present in its input a
\* vector over exactly the hours 0..23 whose value at h is the number of
\* events of that date in hour h; the counts of a date sum to its number of
\* events; events all in hour 3 of one date give counts[3] = eventCount and
\* 0 elsewhere.
C9_AggregateCounts ==
    Aggregated =>
        /\ activity.index = EventDates
        /\ \A d \in EventDates :
              /\ DOMAIN activity.data[d] = 0 .. 23
              /\ \A h \in 0 .. 23 :
                    activity.data[d][h] = Cardinality(EventsAt(d, h))
              /\ SumOver(activity.data[d], 0 .. 23) = Cardinality(EventsOn(d))
              /\ (EventsAt(d, 3) = EventsOn(d)) =>
                    /\ activity.data[d][3] = Cardinality(EventsOn(d))
                    /\ \A h \in (0 .. 23) \ {3} : activity.data[d][h] = 0

\* two events in hour 3 of one date
C9_Witness ==
    /\ pc = "aggregated"
    /\ \E d \in EventDates :
          /\ Cardinality(EventsOn(d)) >= 2
          /\ EventsAt(d, 3) = EventsOn(d)
          /\ activity.data[d][3] = Cardinality(EventsOn(d))

\* C10: nothing that runs after filter_to_january_2025 changes the event
\* collection it returned, and compute_sleep_range leaves the activity
\* matrix unchanged.
AfterFilter == pc \in {"filtered", "stripped", "aggregated", "inferred", "exported"}
AfterAggregate == pc \in {"aggregated", "inferred", "exported"}
C10_NoStageMutatesPrior ==
    [][ /\ AfterFilter => merged' = merged
        /\ AfterAggregate => activity' = activity ]_vars

====
